---- MODULE Spec2Model ----
(***************************************************************************)
(* Model of the Witmotion vibration analyzer:                              *)
(*   src/src/witmotion_device.py   WitmotionDevice (serial link, polling)  *)
(*   src/src/vibration_analyzer.py VibrationAnalyzer (spectrum, peaks)     *)
(*   src/src/main.py               main() (one run of the fixed scenario)  *)
(*                                                                         *)
(* Three specifications share the definitions:                             *)
(*   Spec          one run of main()                                       *)
(*   ApiSpec       an arbitrary caller of one WitmotionDevice              *)
(*   AnalyzerSpec  compute_fft and the peak selection on arbitrary series  *)
(*                                                                         *)
(* Conventions.  Sequences are 1-based, so numpy index i is i + 1 here.    *)
(* Time is counted in polls of the collection loop.  Sensor readings are   *)
(* small integer triples.  scipy.fft.fft and numpy.abs are library code:   *)
(* a series is analysed through its length and the moduli of its transform *)
(* coefficients, which are any non-negative numbers of Mags (of MainMags   *)
(* in a run of main, where six spectra are computed).  A frequency         *)
(* is held as its signed bin number k, the frequency being k * fs / n with *)
(* fs = sampling_rate > 0, which has the sign of k.                        *)
(***************************************************************************)
EXTENDS Integers, Sequences, FiniteSets

\* ------------------------------------------------------------------ bounds
\* polls of the serial link that fit into the collection window
Duration == 3
\* device calls an arbitrary caller makes (ApiSpec)
MaxCalls == 4
\* longest series handed to compute_fft in AnalyzerSpec
MaxSeries == 7
\* largest modulus of a transform coefficient
MaxMag == 2

Mags == 0..MaxMag
\* the moduli the coefficients take in a run of main()
MainMags == {0, 1}
\* Python's None where a reading is expected
None == <<>>
\* self.serial before any Serial object was assigned
NoSerial == "None"
\* what the sensor measures at a poll: (x, y, z) in g and in deg/s
Samples == {[accel |-> <<0, 0, 1>>, gyro |-> <<3, -1, 0>>],
            [accel |-> <<1, -1, 0>>, gyro |-> <<0, 2, -2>>]}
\* what get_acceleration and get_gyro make of a frame: each gives the
\* reading or None
DecodedFrames ==
    UNION {{<<a, g>> : a \in {None, s.accel}, g \in {None, s.gyro}} : s \in Samples}

Min(a, b) == IF a < b THEN a ELSE b
Max(a, b) == IF a > b THEN a ELSE b
Last(s) == s[Len(s)]

VARIABLES
    serial,               \* self.serial: None, or a Serial object that is open or closed
    connected,            \* self.connected
    pc,                   \* position of the caller (main, the api caller, the analyzer)
    calls,                \* history: the device methods called so far, in order
    result,               \* what the last device call returned or raised
    reported,             \* diagnostics printed by main()
    timestamps,           \* collect_data: timestamps
    acceleration_points,  \* collect_data: acceleration_points
    gyroscope_points,     \* collect_data: gyroscope_points
    elapsed,              \* collect_data: time.time() - start_time, in polls
    frame_error,          \* history: handling a frame raised an exception
    partial_frames,       \* history: a frame lacking a reading was decoded
    acceleration_array,   \* main: acceleration_array
    gyroscope_array,      \* main: gyroscope_array
    main_timestamps,      \* main: timestamps after collect_data returned
    min_length,           \* main: min_length
    analyzed,             \* history: the per-axis series lengths of each analyze_vibration call
    axis_i,               \* main: position in the two print loops, 1..6
    series_len,           \* compute_fft: n = len(time_series)
    abs_fft,              \* compute_fft: np.abs(fft_result), all n bins
    freq,                 \* compute_fft: returned frequency array
    magnitude,            \* compute_fft: returned magnitude array
    peak_indices          \* np.argsort(magnitude)[-3:]

devVars == <<serial, connected>>
loopVars == <<timestamps, acceleration_points, gyroscope_points, elapsed,
              frame_error, partial_frames>>
mainVars == <<acceleration_array, gyroscope_array, main_timestamps, min_length,
              analyzed, axis_i, reported>>
fftVars == <<series_len, abs_fft, freq, magnitude, peak_indices>>
vars == <<serial, connected, pc, calls, result, reported, timestamps,
          acceleration_points, gyroscope_points, elapsed, frame_error,
          partial_frames, acceleration_array, gyroscope_array, main_timestamps,
          min_length, analyzed, axis_i, series_len, abs_fft, freq, magnitude,
          peak_indices>>

\* ------------------------------------------------------ WitmotionDevice
\* the device object's link state as a record
Dev == [serial |-> serial, connected |-> connected]

SetDev(d) == serial' = d.serial /\ connected' = d.connected

\* WitmotionDevice.__init__
DeviceInit ==
    /\ serial = NoSerial
    /\ connected = FALSE

\* the history entry of a connect() call with what it returned
ConnectCall(opens) == IF opens THEN "connect->True" ELSE "connect->False"

\* WitmotionDevice.connect: serial.Serial(...) either opens the port or raises;
\* when it raises, the assignment to self.serial does not happen.
connect(d, opens) ==
    IF opens
    THEN [serial |-> "open", connected |-> TRUE]
    ELSE [serial |-> d.serial, connected |-> FALSE]

\* a disconnect that trusts the connected flag instead of the link
disconnect_byFlag(d) ==
    IF d.connected
    THEN [serial |-> "closed", connected |-> FALSE]
    ELSE d

\* WitmotionDevice.disconnect
disconnect(d) ==
    IF d.serial # NoSerial /\ d.serial = "open"
    THEN [serial |-> "closed", connected |-> FALSE]
    ELSE d

\* collect_data, lines 58-67: the connected check and the fresh lists
CollectStart ==
    /\ timestamps' = <<>>
    /\ acceleration_points' = <<>>
    /\ gyroscope_points' = <<>>
    /\ elapsed' = 0
    /\ frame_error' = FALSE
    /\ partial_frames' = FALSE

\* one pass of the loop that reads nothing: in_waiting is 0, or read_until
\* timed out with no bytes
PollNoData ==
    /\ pc = "loop"
    /\ elapsed < Duration
    /\ elapsed' = elapsed + 1
    /\ UNCHANGED <<timestamps, acceleration_points, gyroscope_points,
                   frame_error, partial_frames>>
    /\ UNCHANGED <<devVars, pc, calls, result, mainVars, fftVars>>

\* a loop body that records each reading on its own
PollFrame_appendEach ==
    /\ pc = "loop"
    /\ elapsed < Duration
    /\ \E frame \in DecodedFrames :
         LET accel == frame[1]
             gyro == frame[2]
         IN  /\ timestamps' = IF accel # None /\ gyro # None
                              THEN Append(timestamps, elapsed) ELSE timestamps
             /\ acceleration_points' = IF accel # None
                                       THEN Append(acceleration_points, accel)
                                       ELSE acceleration_points
             /\ gyroscope_points' = IF gyro # None
                                    THEN Append(gyroscope_points, gyro)
                                    ELSE gyroscope_points
             /\ partial_frames' = (partial_frames \/ accel = None \/ gyro = None)
    /\ elapsed' = elapsed + 1
    /\ UNCHANGED frame_error
    /\ UNCHANGED <<devVars, pc, calls, result, mainVars, fftVars>>

\* one pass of the loop that reads a frame: get_acceleration and get_gyro each
\* give a reading or None; a sample is recorded only when both gave one
PollFrame ==
    /\ pc = "loop"
    /\ elapsed < Duration
    /\ \E frame \in DecodedFrames :
         LET accel == frame[1]
             gyro == frame[2]
         IN  IF accel # None /\ gyro # None
             THEN /\ timestamps' = Append(timestamps, elapsed)
                  /\ acceleration_points' = Append(acceleration_points, accel)
                  /\ gyroscope_points' = Append(gyroscope_points, gyro)
                  /\ UNCHANGED partial_frames
             ELSE /\ partial_frames' = TRUE
                  /\ UNCHANGED <<timestamps, acceleration_points, gyroscope_points>>
    /\ elapsed' = elapsed + 1
    /\ UNCHANGED frame_error
    /\ UNCHANGED <<devVars, pc, calls, result, mainVars, fftVars>>

\* one pass of the loop in which reading or decoding raises: the handler
\* prints the error and breaks out of the loop
PollError ==
    /\ pc = "loop"
    /\ elapsed < Duration
    /\ frame_error' = TRUE
    /\ pc' = "collected"
    /\ UNCHANGED <<timestamps, acceleration_points, gyroscope_points, elapsed,
                   partial_frames>>
    /\ UNCHANGED <<devVars, calls, result, mainVars, fftVars>>

\* the loop condition fails: the duration has elapsed
LoopExit ==
    /\ pc = "loop"
    /\ ~(elapsed < Duration)
    /\ pc' = "collected"
    /\ UNCHANGED <<devVars, loopVars, calls, result, mainVars, fftVars>>

\* ---------------------------------------------------- VibrationAnalyzer
\* s[:k] of Python, k >= 0
SliceTo(s, k) == SubSeq(s, 1, Min(k, Len(s)))

\* s[-k:] of Python, k >= 1
SliceLast(s, k) == SubSeq(s, Max(1, Len(s) - k + 1), Len(s))

\* the signed bin numbers with the Nyquist bin of an even n counted positive
fftfreq_nyquistPositive(n) ==
    [i \in 1..n |-> IF i - 1 <= n \div 2 THEN i - 1 ELSE i - 1 - n]

\* np.fft.fftfreq(n, 1/fs) in units of fs/n: 0, 1, .., (n-1) div 2, then
\* -(n div 2), .., -1
fftfreq(n) ==
    [i \in 1..n |-> IF i <= ((n - 1) \div 2) + 1 THEN i - 1 ELSE i - 1 - n]

\* the indices a boolean mask keeps, in order
Kept(mask) == SelectSeq([i \in 1..Len(mask) |-> i], LAMBDA i : mask[i])

\* VibrationAnalyzer.compute_fft on a series of length n whose transform
\* coefficients have the moduli spectrum_abs
compute_fft(n, spectrum_abs) ==
    LET f == fftfreq(n)
        positive_freq_mask == [i \in 1..n |-> f[i] >= 0]
        keep == Kept(positive_freq_mask)
    IN  [freq |-> [j \in 1..Len(keep) |-> f[keep[j]]],
         magnitude |-> [j \in 1..Len(keep) |-> spectrum_abs[keep[j]]]]

\* the orderings of a finite set, as sequences
RECURSIVE Orderings(_)
Orderings(S) ==
    IF S = {} THEN {<<>>}
    ELSE UNION {{Append(p, x) : p \in Orderings(S \ {x})} : x \in S}

\* np.argsort(a): an index order that sorts a ascending; numpy's default sort
\* is not stable, so equal values may come in any order
argsort(a) ==
    {p \in Orderings(1..Len(a)) :
        \A i, j \in 1..Len(a) : i < j => a[p[i]] <= a[p[j]]}

\* peak indices taken from the front of the sorted order
dominant_fromFront(a) == {SliceTo(p, 3) : p \in argsort(a)}

\* np.argsort(magnitude)[-3:], the possible values of peak_indices
dominant(a) == {SliceLast(p, 3) : p \in argsort(a)}

\* ------------------------------------------------------------------ main
\* column j of an (L, 3) array: array[:, j]
Column(array, j) == [i \in 1..Len(array) |-> array[i][j]]

\* the {'X': .., 'Y': .., 'Z': ..} dictionary built from an array
AxisData(array) == [j \in 1..3 |-> Column(array, j)]

NoCollection ==
    /\ timestamps = <<>>
    /\ acceleration_points = <<>>
    /\ gyroscope_points = <<>>
    /\ elapsed = 0
    /\ frame_error = FALSE
    /\ partial_frames = FALSE

NoAnalysis ==
    /\ acceleration_array = <<>>
    /\ gyroscope_array = <<>>
    /\ main_timestamps = <<>>
    /\ min_length = 0
    /\ analyzed = <<>>
    /\ axis_i = 0
    /\ reported = {}

NoSpectrum ==
    /\ series_len = 0
    /\ abs_fft = <<>>
    /\ freq = <<>>
    /\ magnitude = <<>>
    /\ peak_indices = <<>>

\* a main that goes on to collect after connect() returned False
MainConnect_ignoreFailure ==
    /\ pc = "start"
    /\ \E opens \in BOOLEAN :
         /\ SetDev(connect(Dev, opens))
         /\ result' = IF opens THEN "True" ELSE "False"
         /\ calls' = Append(calls, ConnectCall(opens))
    /\ pc' = "try"
    /\ UNCHANGED <<loopVars, mainVars, fftVars>>

\* main, lines 17-20: connect, and leave at once when it returned False
MainConnect ==
    /\ pc = "start"
    /\ \E opens \in BOOLEAN :
         /\ SetDev(connect(Dev, opens))
         /\ result' = IF opens THEN "True" ELSE "False"
         /\ calls' = Append(calls, ConnectCall(opens))
         /\ IF opens
            THEN pc' = "try" /\ UNCHANGED reported
            ELSE pc' = "done" /\ reported' = reported \cup {"Failed to connect"}
    /\ UNCHANGED <<loopVars, acceleration_array, gyroscope_array,
                   main_timestamps, min_length, analyzed, axis_i, fftVars>>

\* main, line 26: device.collect_data is entered; it raises RuntimeError
\* when the device is not connected
MainCollect ==
    /\ pc = "try"
    /\ calls' = Append(calls, "collect_data")
    /\ IF connected
       THEN /\ CollectStart
            /\ pc' = "loop"
            /\ UNCHANGED result
       ELSE /\ result' = "RuntimeError"
            /\ pc' = "except"
            /\ UNCHANGED loopVars
    /\ UNCHANGED <<devVars, mainVars, fftVars>>

\* collect_data returns its three lists to main
MainCollectReturn ==
    /\ pc = "collected"
    /\ result' = "data"
    /\ pc' = "check"
    /\ UNCHANGED <<devVars, loopVars, calls, mainVars, fftVars>>

\* main, lines 30-32: nothing to analyse
MainNoData ==
    /\ pc = "check"
    /\ (acceleration_points = <<>> \/ gyroscope_points = <<>>)
    /\ reported' = reported \cup {"No data collected"}
    /\ pc' = "finally"
    /\ UNCHANGED <<devVars, loopVars, calls, result, acceleration_array,
                   gyroscope_array, main_timestamps, min_length, analyzed,
                   axis_i, fftVars>>

\* a truncation that is one sample short
Align_oneShort(accel, gyro, ts) ==
    LET m == Min(Len(accel), Len(gyro)) - 1
    IN  [min_length |-> m,
         acceleration_array |-> SliceTo(accel, m),
         gyroscope_array |-> SliceTo(gyro, m),
         timestamps |-> SliceTo(ts, m)]

\* main, lines 39-42: the truncation applied to the three sequences
Align(accel, gyro, ts) ==
    LET m == Min(Len(accel), Len(gyro))
    IN  [min_length |-> m,
         acceleration_array |-> SliceTo(accel, m),
         gyroscope_array |-> SliceTo(gyro, m),
         timestamps |-> SliceTo(ts, m)]

\* an alignment that is not guarded by the emptiness test
MainAlign_unguarded ==
    /\ pc = "check"
    /\ LET a == Align(acceleration_points, gyroscope_points, timestamps)
       IN  /\ min_length' = a.min_length
           /\ acceleration_array' = a.acceleration_array
           /\ gyroscope_array' = a.gyroscope_array
           /\ main_timestamps' = a.timestamps
    /\ pc' = "analyze"
    /\ UNCHANGED <<devVars, loopVars, calls, result, analyzed, axis_i,
                   reported, fftVars>>

\* main, lines 34-57: both recordings are cut to the shorter length
MainAlign ==
    /\ pc = "check"
    /\ ~(acceleration_points = <<>> \/ gyroscope_points = <<>>)
    /\ LET a == Align(acceleration_points, gyroscope_points, timestamps)
       IN  /\ min_length' = a.min_length
           /\ acceleration_array' = a.acceleration_array
           /\ gyroscope_array' = a.gyroscope_array
           /\ main_timestamps' = a.timestamps
    /\ pc' = "analyze"
    /\ UNCHANGED <<devVars, loopVars, calls, result, analyzed, axis_i,
                   reported, fftVars>>

\* main, lines 60-64: analyze_vibration is called with the per-axis series
\* and returns the spectra
MainAnalyze ==
    /\ pc = "analyze"
    /\ analyzed' = Append(analyzed, [accel_data |-> AxisData(acceleration_array),
                                     gyro_data |-> AxisData(gyroscope_array),
                                     timestamps |-> main_timestamps])
    /\ axis_i' = 1
    /\ pc' = "print"
    /\ UNCHANGED <<devVars, loopVars, calls, result, acceleration_array,
                   gyroscope_array, main_timestamps, min_length, reported,
                   fftVars>>

\* analyze_vibration raises (plotting or the transform fails)
MainAnalyzeRaises ==
    /\ pc = "analyze"
    /\ analyzed' = Append(analyzed, [accel_data |-> AxisData(acceleration_array),
                                     gyro_data |-> AxisData(gyroscope_array),
                                     timestamps |-> main_timestamps])
    /\ pc' = "except"
    /\ UNCHANGED <<devVars, loopVars, calls, result, acceleration_array,
                   gyroscope_array, main_timestamps, min_length, axis_i,
                   reported, fftVars>>

\* the series of the axis_i-th printed axis: accel X, Y, Z, then gyro X, Y, Z
PrintedSeries ==
    IF axis_i <= 3
    THEN Last(analyzed).accel_data[axis_i]
    ELSE Last(analyzed).gyro_data[axis_i - 3]

\* main, lines 66-81: the spectrum of one axis (compute_fft is pure, so its
\* result is produced where main reads it) and its three largest bins
MainPrintAxis ==
    /\ pc = "print"
    /\ axis_i \in 1..6
    /\ series_len' = Len(PrintedSeries)
    /\ \E a \in [1..Len(PrintedSeries) -> MainMags] :
         /\ abs_fft' = a
         /\ LET r == compute_fft(Len(PrintedSeries), a)
            IN  /\ freq' = r.freq
                /\ magnitude' = r.magnitude
                /\ peak_indices' \in dominant(r.magnitude)
    /\ IF axis_i = 6
       THEN pc' = "finally" /\ UNCHANGED axis_i
       ELSE axis_i' = axis_i + 1 /\ UNCHANGED pc
    /\ UNCHANGED <<devVars, loopVars, calls, result, acceleration_array,
                   gyroscope_array, main_timestamps, min_length, analyzed,
                   reported>>

\* main, lines 83-84: the handler prints the error
MainExcept ==
    /\ pc = "except"
    /\ reported' = reported \cup {"Error during analysis"}
    /\ pc' = "finally"
    /\ UNCHANGED <<devVars, loopVars, calls, result, acceleration_array,
                   gyroscope_array, main_timestamps, min_length, analyzed,
                   axis_i, fftVars>>

\* a finally block that forgets the device
MainFinally_noDisconnect ==
    /\ pc = "finally"
    /\ pc' = "done"
    /\ UNCHANGED <<devVars, loopVars, calls, result, mainVars, fftVars>>

\* main, lines 85-87: the finally block disconnects
MainFinally ==
    /\ pc = "finally"
    /\ SetDev(disconnect(Dev))
    /\ calls' = Append(calls, "disconnect")
    /\ result' = "None"
    /\ pc' = "done"
    /\ UNCHANGED <<loopVars, mainVars, fftVars>>

Init ==
    /\ DeviceInit
    /\ pc = "start"
    /\ calls = <<>>
    /\ result = "None"
    /\ NoCollection
    /\ NoAnalysis
    /\ NoSpectrum

Next ==
    \/ MainConnect
    \/ MainCollect
    \/ PollNoData
    \/ PollFrame
    \/ PollError
    \/ LoopExit
    \/ MainCollectReturn
    \/ MainNoData
    \/ MainAlign
    \/ MainAnalyze
    \/ MainAnalyzeRaises
    \/ MainPrintAxis
    \/ MainExcept
    \/ MainFinally

Spec == Init /\ [][Next]_vars

\* ------------------------------------------ an arbitrary caller (ApiSpec)
\* connect() is called; the port opens or serial.Serial raises
ApiConnect ==
    /\ pc = "api"
    /\ Len(calls) < MaxCalls
    /\ \E opens \in BOOLEAN :
         /\ SetDev(connect(Dev, opens))
         /\ result' = IF opens THEN "True" ELSE "False"
         /\ calls' = Append(calls, ConnectCall(opens))
    /\ UNCHANGED <<pc, loopVars, mainVars, fftVars>>

\* disconnect() is called
ApiDisconnect ==
    /\ pc = "api"
    /\ Len(calls) < MaxCalls
    /\ SetDev(disconnect(Dev))
    /\ result' = "None"
    /\ calls' = Append(calls, "disconnect")
    /\ UNCHANGED <<pc, loopVars, mainVars, fftVars>>

\* collect_data() is called: RuntimeError unless connected, else the loop
ApiCollect ==
    /\ pc = "api"
    /\ Len(calls) < MaxCalls
    /\ calls' = Append(calls, "collect_data")
    /\ IF connected
       THEN /\ CollectStart
            /\ pc' = "loop"
            /\ UNCHANGED result
       ELSE /\ result' = "RuntimeError"
            /\ UNCHANGED <<pc, loopVars>>
    /\ UNCHANGED <<devVars, mainVars, fftVars>>

\* collect_data returns its three lists to the caller
ApiCollectReturn ==
    /\ pc = "collected"
    /\ result' = "data"
    /\ pc' = "api"
    /\ UNCHANGED <<devVars, loopVars, calls, mainVars, fftVars>>

ApiInit ==
    /\ DeviceInit
    /\ pc = "api"
    /\ calls = <<>>
    /\ result = "None"
    /\ NoCollection
    /\ NoAnalysis
    /\ NoSpectrum

ApiNext ==
    \/ ApiConnect
    \/ ApiDisconnect
    \/ ApiCollect
    \/ PollNoData
    \/ PollFrame
    \/ PollError
    \/ LoopExit
    \/ ApiCollectReturn

ApiSpec == ApiInit /\ [][ApiNext]_vars

\* ------------------------------- the analyzer on its own (AnalyzerSpec)
\* compute_fft is applied to a series of length series_len
AnalyzerFFT ==
    /\ pc = "fft"
    /\ LET r == compute_fft(series_len, abs_fft)
       IN  /\ freq' = r.freq
           /\ magnitude' = r.magnitude
    /\ pc' = "peaks"
    /\ UNCHANGED <<devVars, loopVars, calls, result, mainVars, series_len,
                   abs_fft, peak_indices>>

\* the peak selection of main and plot_all_data is applied to the spectrum
AnalyzerPeaks ==
    /\ pc = "peaks"
    /\ peak_indices' \in dominant(magnitude)
    /\ pc' = "selected"
    /\ UNCHANGED <<devVars, loopVars, calls, result, mainVars, series_len,
                   abs_fft, freq, magnitude>>

AnalyzerInit ==
    /\ DeviceInit
    /\ pc = "fft"
    /\ calls = <<>>
    /\ result = "None"
    /\ NoCollection
    /\ NoAnalysis
    /\ series_len \in 1..MaxSeries
    /\ abs_fft \in [1..series_len -> Mags]
    /\ freq = <<>>
    /\ magnitude = <<>>
    /\ peak_indices = <<>>

AnalyzerNext ==
    \/ AnalyzerFFT
    \/ AnalyzerPeaks

AnalyzerSpec == AnalyzerInit /\ [][AnalyzerNext]_vars

\* ================================================================ claims
Range(s) == {s[i] : i \in 1..Len(s)}

\* main is past the emptiness test of line 30 with data to analyse
Aligned == pc \in {"analyze", "print"} \/ analyzed # <<>>

\* every per-axis series of the k-th analyze_vibration call
SeriesOf(k) ==
    {analyzed[k].accel_data[j] : j \in 1..3} \cup
    {analyzed[k].gyro_data[j] : j \in 1..3}

\* C1 (as claimed): a frame whose handling raises is dropped and the loop
\* goes on polling, so the collection only ever ends because the duration
\* has elapsed.
C1_BadFrameKeepsCollecting ==
    (frame_error /\ pc # "loop") => elapsed >= Duration

\* C2: in a run of main() whose connect() returned True, the link is closed
\* when the run has ended, disconnect() being the last device call on every
\* path; a run ends nowhere else, and nothing is called on the device after
\* the disconnect.
C2_LinkClosedOnEveryExit ==
    /\ (pc = "done" /\ calls[1] = "connect->True") =>
          /\ serial = "closed"
          /\ ~connected
          /\ Last(calls) = "disconnect"
    /\ \A i \in 1..Len(calls) : calls[i] = "disconnect" => i = Len(calls)
    /\ pc # "done" => ENABLED Next

C2_Witness ==
    /\ pc = "done"
    /\ calls = <<"connect->True", "collect_data", "disconnect">>
    /\ "Error during analysis" \in reported
    /\ frame_error
    /\ serial = "closed"

\* C3 (as claimed): for an even series length n >= 2, compute_fft returns
\* floor(n/2) + 1 bins, the bins k = 0 .. floor(n/2).
C3_EvenLengthHalfPlusOneBins ==
    (pc \in {"peaks", "selected"} /\ series_len % 2 = 0) =>
        /\ Len(freq) = (series_len \div 2) + 1
        /\ Len(magnitude) = (series_len \div 2) + 1
        /\ \A j \in 1..Len(freq) : freq[j] = j - 1

\* C3 (amended): for an even series length n >= 2, compute_fft returns
\* exactly n/2 bins, the bins k = 0 .. n/2 - 1 in order, each with the
\* modulus of its own coefficient; the Nyquist bin k = n/2 has a negative
\* frequency in the signed layout and is filtered out.
C3_EvenLengthHalfBins ==
    (pc \in {"peaks", "selected"} /\ series_len % 2 = 0) =>
        /\ Len(freq) = series_len \div 2
        /\ Len(magnitude) = series_len \div 2
        /\ \A j \in 1..Len(freq) : freq[j] = j - 1 /\ magnitude[j] = abs_fft[j]

C3_Witness ==
    /\ pc = "peaks"
    /\ series_len % 2 = 0
    /\ series_len >= 4
    /\ Len(freq) = series_len \div 2
    /\ \E j \in 1..Len(magnitude) : magnitude[j] # magnitude[1]

\* C4: the peak selection on a spectrum of m >= 1 bins returns min(3, m)
\* distinct bins, none smaller in magnitude than a bin left out, listed by
\* ascending magnitude with the largest bin of the spectrum last.
C4_DominantPeaks ==
    pc = "selected" =>
        LET m == Len(magnitude)
            k == Len(peak_indices)
        IN  /\ m >= 1
            /\ k = Min(3, m)
            /\ \A i \in 1..k : peak_indices[i] \in 1..m
            /\ \A i, j \in 1..k : i # j => peak_indices[i] # peak_indices[j]
            /\ \A i \in 1..k : \A b \in (1..m) \ Range(peak_indices) :
                   magnitude[peak_indices[i]] >= magnitude[b]
            /\ \A i, j \in 1..k :
                   i < j => magnitude[peak_indices[i]] <= magnitude[peak_indices[j]]
            /\ \A b \in 1..m : magnitude[peak_indices[k]] >= magnitude[b]

C4_Witness ==
    /\ pc = "selected"
    /\ Len(magnitude) >= 4
    /\ Len(peak_indices) = 3
    /\ magnitude[peak_indices[1]] < magnitude[peak_indices[3]]
    /\ \E b \in (1..Len(magnitude)) \ Range(peak_indices) :
           magnitude[b] < magnitude[peak_indices[1]]

\* C5: once main has aligned the recordings, min_length is the smaller of
\* the two recording lengths L, each of the three sequences is the first L
\* elements of what collect_data returned, in order, and every series
\* handed to analyze_vibration has length L.
C5_TruncatedFromTheStart ==
    Aligned =>
        LET L == Min(Len(acceleration_points), Len(gyroscope_points))
        IN  /\ min_length = L
            /\ acceleration_array = [i \in 1..L |-> acceleration_points[i]]
            /\ gyroscope_array = [i \in 1..L |-> gyroscope_points[i]]
            /\ main_timestamps = [i \in 1..L |-> timestamps[i]]
            /\ \A k \in 1..Len(analyzed) :
                   /\ \A s \in SeriesOf(k) : Len(s) = L
                   /\ Len(analyzed[k].timestamps) = L

C5_Witness ==
    /\ pc = "print"
    /\ min_length >= 2
    /\ Len(analyzed) = 1
    /\ acceleration_array[1] # acceleration_array[2]
    /\ analyzed[1].accel_data[1] = <<acceleration_points[1][1], acceleration_points[2][1]>>

\* C6: when collect_data returned no acceleration samples or no gyroscope
\* samples, main reports it and neither analyze_vibration nor compute_fft
\* nor the peak selection runs; analyze_vibration only ever gets series of
\* length >= 1.
C6_NoAnalysisOnEmptyData ==
    /\ \A k \in 1..Len(analyzed) : \A s \in SeriesOf(k) : Len(s) >= 1
    /\ (/\ pc \in {"analyze", "print", "except", "finally", "done"}
        /\ "collect_data" \in Range(calls)
        /\ (acceleration_points = <<>> \/ gyroscope_points = <<>>)) =>
          /\ "No data collected" \in reported
          /\ analyzed = <<>>
          /\ NoSpectrum
    /\ "No data collected" \in reported => analyzed = <<>> /\ NoSpectrum

C6_Witness ==
    /\ pc = "done"
    /\ "No data collected" \in reported
    /\ partial_frames
    /\ analyzed = <<>>
    /\ Last(calls) = "disconnect"

\* C7: a connect() that cannot open the link returns False and leaves
\* connected False; main then ends the run at once: connect is its only
\* device call, and nothing is collected or analysed.
C7_FailedConnectEndsRun ==
    (Len(calls) >= 1 /\ calls[1] = "connect->False") =>
        /\ ~connected
        /\ serial # "open"
        /\ pc = "done"
        /\ calls = <<"connect->False">>
        /\ result = "False"
        /\ reported = {"Failed to connect"}
        /\ NoCollection
        /\ analyzed = <<>>

C7_Witness ==
    /\ pc = "done"
    /\ calls = <<"connect->False">>
    /\ result = "False"
    /\ ~connected

\* C8: in every state the device can be in, disconnect() leaves the link
\* closed and a second disconnect() changes nothing; after a disconnect()
\* call no error was raised, the link is closed and a further call is a
\* no-op.
C8_DisconnectIdempotent ==
    /\ disconnect(Dev).serial # "open"
    /\ disconnect(disconnect(Dev)) = disconnect(Dev)
    /\ (calls # <<>> /\ Last(calls) = "disconnect") =>
          /\ serial # "open"
          /\ result = "None"
          /\ disconnect(Dev) = Dev

C8_Witness ==
    /\ Len(calls) = 4
    /\ calls[1] = "connect->True"
    /\ calls[2] = "connect->False"
    /\ calls[3] = "disconnect"
    /\ calls[4] = "disconnect"
    /\ serial = "closed"

\* C9 (as claimed): after any sequence of connect, disconnect and
\* collect_data calls, connected is True exactly when the device holds an
\* open link, so collect_data raises RuntimeError exactly when no open link
\* is held.
C9_ConnectedIffLinkOpen ==
    /\ connected <=> (serial = "open")
    /\ (pc = "api" /\ calls # <<>> /\ Last(calls) = "collect_data") =>
          (result = "RuntimeError" <=> serial # "open")

\* C10: the three sequences of collect_data have the same length at every
\* point of the loop and on return, a sample being added only for a frame
\* that gave both readings; hence main's truncation discards nothing.
C10_SequencesStayInStep ==
    /\ Len(timestamps) = Len(acceleration_points)
    /\ Len(acceleration_points) = Len(gyroscope_points)
    /\ Len(timestamps) <= elapsed
    /\ Aligned =>
          /\ acceleration_array = acceleration_points
          /\ gyroscope_array = gyroscope_points
          /\ main_timestamps = timestamps

C10_Witness ==
    /\ pc = "analyze"
    /\ partial_frames
    /\ Len(timestamps) >= 1
    /\ Len(timestamps) < elapsed
    /\ acceleration_array = acceleration_points

====
